---- MODULE Spec2Model ----
(***************************************************************************)
(* go-payments: the wallet ledger of internal/storage/storage.go and the   *)
(* POST /api/send handler in front of it.                                  *)
(*                                                                         *)
(* The database is PostgreSQL at its default isolation level (READ         *)
(* COMMITTED).  The model keeps the committed rows (balance, txlog, the    *)
(* SERIAL sequence seq) and, per running SendMoney call, the uncommitted   *)
(* writes of its transaction (pending, txrow).  A row written by an open   *)
(* transaction is row-locked until that transaction commits or rolls back; *)
(* an UPDATE of a locked row waits and then runs against the latest        *)
(* committed value.  A plain SELECT never waits and sees committed rows.   *)
(*                                                                         *)
(* Money: wallets.balance and transactions.amount are DECIMAL(20, 8), so a *)
(* stored value is a whole number of 1e-8 units ("quanta"); a value with   *)
(* more decimals is rounded to the nearest quantum, ties away from zero,   *)
(* when it is stored.  The amount of a call is a Go float64 and is finer   *)
(* than that: amounts are counted in sub-units, SubUnits to the quantum.   *)
(***************************************************************************)
EXTENDS Integers, Sequences, FiniteSets, TLC

\* ------------------------------------------------------------------ bounds
StartBalance == 1  \* seeded balance in quanta (100.0 in the source)
SubUnits == 2      \* resolution of a float64 amount: sub-units per quantum
MaxAmount == 3     \* largest requested amount, in sub-units
MaxClock == 1      \* last instant of the clock (its first is 0)

Procs == {1, 2}                  \* the requests in flight, each on its own goroutine
SeedAddr == {1, 2}               \* the addresses Init generates, in the order it makes them
NumSeed == Cardinality(SeedAddr) \* 10 in the source
Ghost == 0                       \* an address no wallet row ever has
Addr == SeedAddr \cup {Ghost}
ReqAmounts == (0 - 1)..MaxAmount  \* amounts a request may carry, in sub-units

\* models.TransactionStatus
StatusSuccess == "success"
StatusFailedInsufficientFunds == "failed_insufficient_funds"
StatusFailedRecipientNotFound == "failed_recipient_not_found"
StatusFailedSenderNotFound == "failed_sender_not_found"
StatusUnknownError == "unknown_error"

\* storage.TxErrCode
CodeSenderNotFound == "CodeSenderNotFound"
CodeRecipientNotFound == "CodeRecipientNotFound"
CodeInsufficientFunds == "CodeInsufficientFunds"
CodeInternalError == "CodeInternalError"

VARIABLES
    started,        \* main: db.Init returned nil and the server is serving
    balance,        \* committed wallets rows: address -> balance in quanta
    txlog,          \* committed transactions rows, in commit order
    seq,            \* last value handed out by the SERIAL sequence of transactions.id
    pc,             \* per call: where the goroutine stands in Send / SendMoney
    req,            \* per call: the arguments from, to, amount of SendMoney
    senderBalance,  \* per call: the local senderBalance scanned at line 219
    pending,        \* per call: wallets rows written (and locked) by its open transaction
    txrow,          \* per call: the transactions row inserted by its open transaction
    status,         \* per call: the status handed to logTransaction
    logErr,         \* per call: err of the INSERT inside logTransaction (line 191)
    result,         \* per call: what SendMoney (or the handler) returned
    wallet,         \* what the last GetWalletBalance returned
    transactions,   \* what the last GetLastTransactions returned
    wallets,        \* what the last GetWallets returned
    now,            \* the clock that time.Now() reads
    cancelled,      \* per call: the ctx of the request is done (deadline or cancel)
    ends            \* per call: the calls it made that end its transaction, in order

vars == <<started, balance, txlog, seq, pc, req, senderBalance, pending, txrow, ends, status, logErr, result, wallet, transactions, wallets, now, cancelled>>

NoRows == [a \in {} |-> 0]
NoRow == [id |-> 0]
NoWallet == [arg |-> Ghost, address |-> Ghost, balance |-> 0, err |-> "none"]
NoReq == [from |-> Ghost, to |-> Ghost, amount |-> 0]
NoRead == [n |-> 0, rows |-> <<>>, err |-> "none"]

\* What a call returned.  kind: "nil", "TransactionError" (*TransactionError with
\* Code code), "error" (any other error value), "rejected" (the handler answered
\* 400 and SendMoney was not called).  at: the statement the error came from.
Result(kind, code, at) == [kind |-> kind, code |-> code, at |-> at]
NoResult == Result("none", "", "")
Nil == Result("nil", "", "")
TransactionError(code, at) == Result("TransactionError", code, at)

\* ------------------------------------------------------------ DECIMAL(20,8)
\* A value in sub-units stored into a DECIMAL(20, 8) column: rounded to the
\* nearest quantum, ties away from zero.
RoundQ(x) ==
    IF x >= 0 THEN (2 * x + SubUnits) \div (2 * SubUnits)
    ELSE -((2 * (-x) + SubUnits) \div (2 * SubUnits))

Sum(f) ==
    LET RECURSIVE S(_)
        S(D) == IF D = {} THEN 0
                ELSE LET a == CHOOSE x \in D : TRUE IN f[a] + S(D \ {a})
    IN S(DOMAIN f)

Upd(f, k, v) == [x \in DOMAIN f \cup {k} |-> IF x = k THEN v ELSE f[x]]

\* ---------------------------------------------------------------- initial
Init ==
    /\ started = FALSE
    /\ balance = NoRows
    /\ txlog = <<>>
    /\ seq = 0
    /\ pc = [p \in Procs |-> "idle"]
    /\ req = [p \in Procs |-> NoReq]
    /\ senderBalance = [p \in Procs |-> 0]
    /\ pending = [p \in Procs |-> NoRows]
    /\ txrow = [p \in Procs |-> NoRow]
    /\ status = [p \in Procs |-> ""]
    /\ logErr = [p \in Procs |-> ""]
    /\ result = [p \in Procs |-> NoResult]
    /\ wallet = NoWallet
    /\ transactions = NoRead
    /\ wallets = NoRead
    /\ now = 0
    /\ cancelled = [p \in Procs |-> FALSE]
    /\ ends = [p \in Procs |-> <<>>]

\* Storage.Init as main runs it before serving.  The tables exist afterwards.
\* With no wallet row it inserts the seed wallets one statement at a time; an
\* insert that fails leaves the k wallets made so far and main exits
\* (log.Fatalf), to be started again.  With any wallet row it inserts nothing.
StorageInit ==
    /\ ~started
    /\ IF DOMAIN balance = {}
       THEN \E k \in 0..NumSeed :
              /\ balance' = [a \in {x \in SeedAddr : x <= k} |-> StartBalance]
              /\ started' = (k = NumSeed)
       ELSE /\ started' = TRUE
            /\ UNCHANGED balance
    /\ UNCHANGED <<txlog, seq, pc, req, senderBalance, pending, txrow, ends, status, logErr, result, wallet, transactions, wallets, now, cancelled>>

\* ------------------------------------------------------- the transactions table
\* The constraints of CREATE TABLE transactions: both addresses REFERENCES
\* wallets(address), and CHECK (from_address <> to_address).
RowAccepted(from, to) ==
    /\ from \in DOMAIN balance
    /\ to \in DOMAIN balance
    /\ from # to

\* The row an INSERT INTO transactions makes: id from the sequence, amount
\* stored as DECIMAL(20, 8), timestamp the time.Now() of the caller.
Row(id, r, st) ==
    [id |-> id, from |-> r.from, to |-> r.to, amount |-> RoundQ(r.amount),
     timestamp |-> now, status |-> st]

\* ------------------------------------------------------------- transactions
\* The transaction of p is over: its uncommitted rows are gone (dropped, or
\* made committed rows by the caller of this operator), its row locks released.
Over(p) ==
    /\ pending' = [pending EXCEPT ![p] = NoRows]
    /\ txrow' = [txrow EXCEPT ![p] = NoRow]

\* tx.Rollback(): the writes of p's transaction are dropped, its row locks released.
Rollback(p) ==
    /\ Over(p)
    /\ ends' = [ends EXCEPT ![p] = Append(@, "Rollback")]

\* An error path that logs and returns without tx.Rollback().
LogWithoutRollback(p, st, res) ==
    /\ UNCHANGED <<pending, txrow, ends>>
    /\ status' = [status EXCEPT ![p] = st]
    /\ result' = [result EXCEPT ![p] = res]
    /\ pc' = [pc EXCEPT ![p] = "logTransaction"]

\* The error paths that roll back and then call s.logTransaction with st
\* before returning res.
RollbackAndLog(p, st, res) ==
    /\ Rollback(p)
    /\ status' = [status EXCEPT ![p] = st]
    /\ result' = [result EXCEPT ![p] = res]
    /\ pc' = [pc EXCEPT ![p] = "logTransaction"]

\* LockFree for an UPDATE that would not wait for the row lock.
LockIgnored(p, w) == TRUE

\* How a statement that call p runs on its ctx can end: with ok or with an
\* error; once the ctx is done every statement, Commit included, ends with
\* the error of the ctx.
Fate(p) == IF cancelled[p] THEN {FALSE} ELSE BOOLEAN

\* The row lock on wallet w is free for p: no other open transaction wrote w.
LockFree(p, w) == \A q \in Procs \ {p} : w \notin DOMAIN pending[q]

\* The value of wallets row w that a statement of p's transaction works on: its
\* own write if it made one, else the committed row.
Current(p, w) == IF w \in DOMAIN pending[p] THEN pending[p][w] ELSE balance[w]

\* UpdateBalance that writes a value computed in Go from the balance scanned
\* at line 219 (SET balance = $1) instead of adjusting the row in SQL.
UpdateBalanceFromRead(p, w, delta) ==
    Upd(pending[p], w,
        RoundQ((IF w = req[p].from THEN senderBalance[p] ELSE Current(p, w)) * SubUnits + delta))

\* UPDATE wallets SET balance = balance + delta WHERE address = w, inside p's
\* transaction; delta in sub-units, the result stored as DECIMAL(20, 8).
UpdateBalance(p, w, delta) ==
    Upd(pending[p], w, RoundQ(Current(p, w) * SubUnits + delta))

\* ------------------------------------------------------------- the entry points
\* Storage.SendMoney(ctx, from, to, amount) called by request p: it starts
\* with db.BeginTx, which either opens the transaction or fails (then
\* unknown_error is logged and the BeginTx error is returned wrapped by
\* fmt.Errorf).  Nothing in SendMoney looks at the sign of amount or compares
\* from with to.  Requests are numbered in the order they arrive.
SendMoney(p, from, to, amount) ==
    /\ started
    /\ pc[p] = "idle"
    /\ \A q \in Procs : q < p => pc[q] # "idle"
    /\ req' = [req EXCEPT ![p] = [from |-> from, to |-> to, amount |-> amount]]
    /\ \E ok \in Fate(p) :
         IF ok
         THEN /\ pc' = [pc EXCEPT ![p] = "readSender"]
              /\ UNCHANGED <<status, result>>
         ELSE /\ pc' = [pc EXCEPT ![p] = "logTransaction"]
              /\ status' = [status EXCEPT ![p] = StatusUnknownError]
              /\ result' = [result EXCEPT ![p] = Result("error", "", "BeginTx")]
    /\ UNCHANGED <<started, balance, txlog, seq, senderBalance, pending, txrow, ends, logErr, wallet, transactions, wallets, now, cancelled>>

\* The handler answers 400 without calling SendMoney.
Reject(p) ==
    /\ started
    /\ pc[p] = "idle"
    /\ \A q \in Procs : q < p => pc[q] # "idle"
    /\ pc' = [pc EXCEPT ![p] = "done"]
    /\ result' = [result EXCEPT ![p] = Result("rejected", "", "Send")]
    /\ UNCHANGED <<started, balance, txlog, seq, req, senderBalance, pending, txrow, ends, status, logErr, wallet, transactions, wallets, now, cancelled>>

\* API.Send of the older copy of the handler: it turns away amount < 0 only.
SendLegacy(p, from, to, amount) ==
    IF amount < 0 \/ from = to
    THEN Reject(p)
    ELSE SendMoney(p, from, to, amount)

\* API.Send: a request with amount <= 0 or from = to is answered 400 and
\* SendMoney is not called; any other request is handed to SendMoney.
Send(p, from, to, amount) ==
    IF amount <= 0 \/ from = to
    THEN Reject(p)
    ELSE SendMoney(p, from, to, amount)

\* --------------------------------------------------------- Storage.SendMoney
\* ReadSender with the recipient looked up before the balance is compared.
ReadSenderRecipientFirst(p) ==
    /\ pc[p] = "readSender"
    /\ \E ok \in Fate(p) :
         IF ~ok
         THEN /\ RollbackAndLog(p, StatusUnknownError, TransactionError(CodeInternalError, "readSender"))
              /\ UNCHANGED senderBalance
         ELSE IF req[p].from \notin DOMAIN balance
         THEN /\ RollbackAndLog(p, StatusFailedSenderNotFound, TransactionError(CodeSenderNotFound, "readSender"))
              /\ UNCHANGED senderBalance
         ELSE /\ senderBalance' = [senderBalance EXCEPT ![p] = balance[req[p].from]]
              /\ IF req[p].to \notin DOMAIN balance
                 THEN RollbackAndLog(p, StatusFailedRecipientNotFound, TransactionError(CodeRecipientNotFound, "readRecipient"))
                 ELSE IF balance[req[p].from] * SubUnits < req[p].amount
                 THEN RollbackAndLog(p, StatusFailedInsufficientFunds, TransactionError(CodeInsufficientFunds, "checkBalance"))
                 ELSE /\ pc' = [pc EXCEPT ![p] = "readRecipient"]
                      /\ UNCHANGED <<pending, txrow, ends, status, result>>
    /\ UNCHANGED <<started, balance, txlog, seq, req, logErr, wallet, transactions, wallets, now, cancelled>>

\* SELECT balance FROM wallets WHERE address = from, then the balance check.
ReadSender(p) ==
    /\ pc[p] = "readSender"
    /\ \E ok \in Fate(p) :
         IF ~ok
         THEN /\ RollbackAndLog(p, StatusUnknownError, TransactionError(CodeInternalError, "readSender"))
              /\ UNCHANGED senderBalance
         ELSE IF req[p].from \notin DOMAIN balance
         THEN /\ RollbackAndLog(p, StatusFailedSenderNotFound, TransactionError(CodeSenderNotFound, "readSender"))
              /\ UNCHANGED senderBalance
         ELSE /\ senderBalance' = [senderBalance EXCEPT ![p] = balance[req[p].from]]
              /\ IF balance[req[p].from] * SubUnits < req[p].amount
                 THEN RollbackAndLog(p, StatusFailedInsufficientFunds, TransactionError(CodeInsufficientFunds, "checkBalance"))
                 ELSE /\ pc' = [pc EXCEPT ![p] = "readRecipient"]
                      /\ UNCHANGED <<pending, txrow, ends, status, result>>
    /\ UNCHANGED <<started, balance, txlog, seq, req, logErr, wallet, transactions, wallets, now, cancelled>>

\* SELECT 1 FROM wallets WHERE address = to.
ReadRecipient(p) ==
    /\ pc[p] = "readRecipient"
    /\ \E ok \in Fate(p) :
         IF ~ok
         THEN RollbackAndLog(p, StatusUnknownError, TransactionError(CodeInternalError, "readRecipient"))
         ELSE IF req[p].to \notin DOMAIN balance
         THEN RollbackAndLog(p, StatusFailedRecipientNotFound, TransactionError(CodeRecipientNotFound, "readRecipient"))
         ELSE /\ pc' = [pc EXCEPT ![p] = "debit"]
              /\ UNCHANGED <<pending, txrow, ends, status, result>>
    /\ UNCHANGED <<started, balance, txlog, seq, req, senderBalance, logErr, wallet, transactions, wallets, now, cancelled>>

\* Debit with the UPDATE run on the pool (s.db) instead of the transaction:
\* it commits on its own.
DebitOnPool(p) ==
    /\ pc[p] = "debit"
    /\ \E ok \in Fate(p) :
         IF ~ok
         THEN /\ RollbackAndLog(p, StatusUnknownError, TransactionError(CodeInternalError, "debit"))
              /\ UNCHANGED balance
         ELSE /\ LockFree(p, req[p].from)
              /\ balance' = [balance EXCEPT ![req[p].from] = RoundQ(@ * SubUnits - req[p].amount)]
              /\ pc' = [pc EXCEPT ![p] = "credit"]
              /\ UNCHANGED <<pending, txrow, ends, status, result>>
    /\ UNCHANGED <<started, txlog, seq, req, senderBalance, logErr, wallet, transactions, wallets, now, cancelled>>

\* UPDATE wallets SET balance = balance - amount WHERE address = from.  It
\* waits while another open transaction holds the row; the error branch covers
\* every failure of the statement, the abort by the deadlock detector included.
Debit(p) ==
    /\ pc[p] = "debit"
    /\ \E ok \in Fate(p) :
         IF ~ok
         THEN RollbackAndLog(p, StatusUnknownError, TransactionError(CodeInternalError, "debit"))
         ELSE /\ LockFree(p, req[p].from)
              /\ pending' = [pending EXCEPT ![p] = UpdateBalance(p, req[p].from, -req[p].amount)]
              /\ pc' = [pc EXCEPT ![p] = "credit"]
              /\ UNCHANGED <<txrow, ends, status, result>>
    /\ UNCHANGED <<started, balance, txlog, seq, req, senderBalance, logErr, wallet, transactions, wallets, now, cancelled>>

\* Credit with the UPDATE run on the pool (s.db) instead of the transaction.
CreditOnPool(p) ==
    /\ pc[p] = "credit"
    /\ \E ok \in Fate(p) :
         IF ~ok
         THEN /\ RollbackAndLog(p, StatusUnknownError, TransactionError(CodeInternalError, "credit"))
              /\ UNCHANGED balance
         ELSE /\ LockFree(p, req[p].to)
              /\ balance' = [balance EXCEPT ![req[p].to] = RoundQ(@ * SubUnits + req[p].amount)]
              /\ pc' = [pc EXCEPT ![p] = "logTransactionInTx"]
              /\ UNCHANGED <<pending, txrow, ends, status, result>>
    /\ UNCHANGED <<started, txlog, seq, req, senderBalance, logErr, wallet, transactions, wallets, now, cancelled>>

\* UPDATE wallets SET balance = balance + amount WHERE address = to.
Credit(p) ==
    /\ pc[p] = "credit"
    /\ \E ok \in Fate(p) :
         IF ~ok
         THEN RollbackAndLog(p, StatusUnknownError, TransactionError(CodeInternalError, "credit"))
         ELSE /\ LockFree(p, req[p].to)
              /\ pending' = [pending EXCEPT ![p] = UpdateBalance(p, req[p].to, req[p].amount)]
              /\ pc' = [pc EXCEPT ![p] = "logTransactionInTx"]
              /\ UNCHANGED <<txrow, ends, status, result>>
    /\ UNCHANGED <<started, balance, txlog, seq, req, senderBalance, logErr, wallet, transactions, wallets, now, cancelled>>

\* logTransactionInTx(..., StatusSuccess): the INSERT inside the transaction.
\* When it fails SendMoney rolls back and returns without calling logTransaction.
\* The sequence value is used up whether or not the row passes the constraints.
LogTransactionInTx(p) ==
    /\ pc[p] = "logTransactionInTx"
    /\ \E ok \in Fate(p) :
         IF ok /\ RowAccepted(req[p].from, req[p].to)
         THEN /\ txrow' = [txrow EXCEPT ![p] = Row(seq + 1, req[p], StatusSuccess)]
              /\ seq' = seq + 1
              /\ pc' = [pc EXCEPT ![p] = "commit"]
              /\ UNCHANGED <<pending, result, ends>>
         ELSE /\ Rollback(p)
              /\ seq' = IF ok THEN seq + 1 ELSE seq
              /\ result' = [result EXCEPT ![p] = TransactionError(CodeInternalError, "logTransactionInTx")]
              /\ pc' = [pc EXCEPT ![p] = "done"]
    /\ UNCHANGED <<started, balance, txlog, req, senderBalance, status, logErr, wallet, transactions, wallets, now, cancelled>>

\* The committed wallets table after p's transaction commits.
Committed(p) ==
    [w \in DOMAIN balance |-> IF w \in DOMAIN pending[p] THEN pending[p][w] ELSE balance[w]]

\* Commit whose error is reported although the writes were applied.
CommitAppliedOnError(p) ==
    /\ pc[p] = "commit"
    /\ \E ok \in Fate(p) :
         /\ balance' = Committed(p)
         /\ txlog' = Append(txlog, txrow[p])
         /\ result' = [result EXCEPT ![p] = IF ok THEN Nil ELSE Result("error", "", "Commit")]
    /\ Over(p)
    /\ ends' = [ends EXCEPT ![p] = Append(@, "Commit")]
    /\ pc' = [pc EXCEPT ![p] = "done"]
    /\ UNCHANGED <<started, seq, req, senderBalance, status, logErr, wallet, transactions, wallets, now, cancelled>>

\* return tx.Commit(): all writes of the transaction become visible at once,
\* or the commit fails, nothing is applied, and its error is returned as it is.
Commit(p) ==
    /\ pc[p] = "commit"
    /\ \E ok \in Fate(p) :
         IF ok
         THEN /\ balance' = Committed(p)
              /\ txlog' = Append(txlog, txrow[p])
              /\ result' = [result EXCEPT ![p] = Nil]
         ELSE /\ result' = [result EXCEPT ![p] = Result("error", "", "Commit")]
              /\ UNCHANGED <<balance, txlog>>
    /\ Over(p)
    /\ ends' = [ends EXCEPT ![p] = Append(@, "Commit")]
    /\ pc' = [pc EXCEPT ![p] = "done"]
    /\ UNCHANGED <<started, seq, req, senderBalance, status, logErr, wallet, transactions, wallets, now, cancelled>>

\* LogTransaction whose failed INSERT is escalated: the call returns the
\* error of the log write instead of the error it had.
LogTransactionEscalates(p) ==
    /\ pc[p] = "logTransaction"
    /\ \E ok \in Fate(p) :
         IF ~ok
         THEN /\ logErr' = [logErr EXCEPT ![p] = "storage"]
              /\ result' = [result EXCEPT ![p] = TransactionError(CodeInternalError, "logTransaction")]
              /\ UNCHANGED <<txlog, seq>>
         ELSE IF ~RowAccepted(req[p].from, req[p].to)
         THEN /\ logErr' = [logErr EXCEPT ![p] = "constraint"]
              /\ result' = [result EXCEPT ![p] = TransactionError(CodeInternalError, "logTransaction")]
              /\ seq' = seq + 1
              /\ UNCHANGED txlog
         ELSE /\ logErr' = [logErr EXCEPT ![p] = "nil"]
              /\ seq' = seq + 1
              /\ txlog' = Append(txlog, Row(seq + 1, req[p], status[p]))
              /\ UNCHANGED result
    /\ pc' = [pc EXCEPT ![p] = "done"]
    /\ UNCHANGED <<started, balance, req, senderBalance, pending, txrow, ends, status, wallet, transactions, wallets, now, cancelled>>

\* LogTransaction with the id computed from the number of rows in the table
\* (count + 1) instead of taken from the sequence.
LogTransactionCountId(p) ==
    /\ pc[p] = "logTransaction"
    /\ \E ok \in Fate(p) :
         IF ~ok
         THEN /\ logErr' = [logErr EXCEPT ![p] = "storage"]
              /\ UNCHANGED txlog
         ELSE IF ~RowAccepted(req[p].from, req[p].to)
         THEN /\ logErr' = [logErr EXCEPT ![p] = "constraint"]
              /\ UNCHANGED txlog
         ELSE /\ logErr' = [logErr EXCEPT ![p] = "nil"]
              /\ txlog' = Append(txlog, Row(Len(txlog) + 1, req[p], status[p]))
    /\ pc' = [pc EXCEPT ![p] = "done"]
    /\ UNCHANGED <<started, balance, seq, req, senderBalance, pending, txrow, ends, status, result, wallet, transactions, wallets, now, cancelled>>

\* s.logTransaction: one autocommit INSERT on the pool, outside the rolled
\* back transaction.  Its error is printed and dropped.
LogTransaction(p) ==
    /\ pc[p] = "logTransaction"
    /\ \E ok \in Fate(p) :
         IF ~ok
         THEN /\ logErr' = [logErr EXCEPT ![p] = "storage"]
              /\ UNCHANGED <<txlog, seq>>
         ELSE IF ~RowAccepted(req[p].from, req[p].to)
         THEN /\ logErr' = [logErr EXCEPT ![p] = "constraint"]
              /\ seq' = seq + 1
              /\ UNCHANGED txlog
         ELSE /\ logErr' = [logErr EXCEPT ![p] = "nil"]
              /\ seq' = seq + 1
              /\ txlog' = Append(txlog, Row(seq + 1, req[p], status[p]))
    /\ pc' = [pc EXCEPT ![p] = "done"]
    /\ UNCHANGED <<started, balance, req, senderBalance, pending, txrow, ends, status, result, wallet, transactions, wallets, now, cancelled>>

\* ------------------------------------------------------------------ readers
\* The readers are single SELECTs on the pool: each sees committed rows only
\* and changes none.  The model keeps the answer of the latest reader call.

\* GetWalletBalance that answers a missing address with an empty wallet and
\* no error.
GetWalletBalanceZero(address) ==
    /\ started
    /\ \E ok \in BOOLEAN :
         wallet' = IF ~ok
                   THEN [arg |-> address, address |-> Ghost, balance |-> 0, err |-> "error"]
                   ELSE IF address \in DOMAIN balance
                   THEN [arg |-> address, address |-> address, balance |-> balance[address], err |-> "nil"]
                   ELSE [arg |-> address, address |-> address, balance |-> 0, err |-> "nil"]
    /\ transactions' = NoRead
    /\ wallets' = NoRead
    /\ UNCHANGED <<started, balance, txlog, seq, pc, req, senderBalance, pending, txrow, ends, status, logErr, result, now, cancelled>>

\* GetWalletBalance(address): sql.ErrNoRows becomes ErrWalletNotFound, any
\* other error of the query is returned wrapped, else the row is returned.
GetWalletBalance(address) ==
    /\ started
    /\ \E ok \in BOOLEAN :
         wallet' = IF ~ok
                   THEN [arg |-> address, address |-> Ghost, balance |-> 0, err |-> "error"]
                   ELSE IF address \in DOMAIN balance
                   THEN [arg |-> address, address |-> address, balance |-> balance[address], err |-> "nil"]
                   ELSE [arg |-> address, address |-> Ghost, balance |-> 0, err |-> "ErrWalletNotFound"]
    /\ transactions' = NoRead
    /\ wallets' = NoRead
    /\ UNCHANGED <<started, balance, txlog, seq, pc, req, senderBalance, pending, txrow, ends, status, logErr, result, now, cancelled>>

\* The limits a reader is called with: up to one more than the log can hold.
Limits == 1..(Cardinality(Procs) + 1)

Min(a, b) == IF a <= b THEN a ELSE b

\* The answers of SELECT ... FROM transactions ORDER BY timestamp DESC LIMIT n:
\* the first n rows of any arrangement of the committed rows in which the
\* timestamps do not increase.  Rows of one timestamp come in any order.
LastTransactions(n) ==
    LET L == Len(txlog)
        Orders == {f \in [1..L -> 1..L] :
                      /\ \A i \in 1..L : \A j \in 1..L : i # j => f[i] # f[j]
                      /\ \A i \in 1..L : \A j \in 1..L :
                            i < j => txlog[f[i]].timestamp >= txlog[f[j]].timestamp}
    IN {[i \in 1..Min(n, L) |-> txlog[f[i]]] : f \in Orders}

\* GetLastTransactions(n).
GetLastTransactions(n) ==
    /\ started
    /\ \E ok \in BOOLEAN :
         IF ~ok
         THEN transactions' = [n |-> n, rows |-> <<>>, err |-> "error"]
         ELSE \E rows \in LastTransactions(n) :
                 transactions' = [n |-> n, rows |-> rows, err |-> "nil"]
    /\ wallet' = NoWallet
    /\ wallets' = NoRead
    /\ UNCHANGED <<started, balance, txlog, seq, pc, req, senderBalance, pending, txrow, ends, status, logErr, result, now, cancelled>>

\* The answers of SELECT address, balance FROM wallets LIMIT limit: any limit
\* of the committed rows, in any order.
SomeWallets(limit) ==
    LET k == Min(limit, Cardinality(DOMAIN balance))
    IN {[i \in 1..k |-> [address |-> f[i], balance |-> balance[f[i]]]] :
            f \in {g \in [1..k -> DOMAIN balance] :
                       \A i \in 1..k : \A j \in 1..k : i # j => g[i] # g[j]}}

\* GetWallets(limit).
GetWallets(limit) ==
    /\ started
    /\ \E ok \in BOOLEAN :
         IF ~ok
         THEN wallets' = [n |-> limit, rows |-> <<>>, err |-> "error"]
         ELSE \E rows \in SomeWallets(limit) :
                 wallets' = [n |-> limit, rows |-> rows, err |-> "nil"]
    /\ wallet' = NoWallet
    /\ transactions' = NoRead
    /\ UNCHANGED <<started, balance, txlog, seq, pc, req, senderBalance, pending, txrow, ends, status, logErr, result, now, cancelled>>

\* Time passes.
Tick ==
    /\ started
    /\ now < MaxClock
    /\ now' = now + 1
    /\ UNCHANGED <<started, balance, txlog, seq, pc, req, senderBalance, pending, txrow, ends, status, logErr, result, wallet, transactions, wallets, cancelled>>

\* The ctx of request p is done while its transaction is open: the deadline
\* passed or the client went away.  database/sql rolls the transaction back
\* on its own then; the model drops its writes at the next statement of the
\* call, which fails.
Cancel(p) ==
    /\ pc[p] \in {"readSender", "readRecipient", "debit", "credit", "logTransactionInTx", "commit"}
    /\ ~cancelled[p]
    /\ cancelled' = [cancelled EXCEPT ![p] = TRUE]
    /\ UNCHANGED <<started, balance, txlog, seq, pc, req, senderBalance, pending, txrow, ends, status, logErr, result, wallet, transactions, wallets, now>>

Next ==
    \/ StorageInit
    \/ \E p \in Procs, from \in Addr, to \in Addr, amount \in ReqAmounts : Send(p, from, to, amount)
    \/ \E p \in Procs : ReadSender(p)
    \/ \E p \in Procs : ReadRecipient(p)
    \/ \E p \in Procs : Debit(p)
    \/ \E p \in Procs : Credit(p)
    \/ \E p \in Procs : LogTransactionInTx(p)
    \/ \E p \in Procs : Commit(p)
    \/ \E p \in Procs : LogTransaction(p)

Spec == Init /\ [][Next]_vars

\* The same program with readers running beside the transfers; the transfers
\* move whole quanta between the seeded wallets.
SendWhole ==
    \E p \in Procs, from \in SeedAddr, to \in SeedAddr, n \in 1..(MaxAmount \div SubUnits) :
        Send(p, from, to, n * SubUnits)

NextRead ==
    \/ StorageInit
    \/ SendWhole
    \/ \E p \in Procs : ReadSender(p)
    \/ \E p \in Procs : ReadRecipient(p)
    \/ \E p \in Procs : Debit(p)
    \/ \E p \in Procs : Credit(p)
    \/ \E p \in Procs : LogTransactionInTx(p)
    \/ \E p \in Procs : Commit(p)
    \/ \E p \in Procs : LogTransaction(p)
    \/ \E a \in Addr : GetWalletBalance(a)
    \/ \E n \in Limits : GetLastTransactions(n)
    \/ \E n \in Limits : GetWallets(n)

SpecRead == Init /\ [][NextRead]_vars

\* The same with the clock running, so that rows carry different timestamps.
NextLog ==
    \/ NextRead
    \/ Tick

SpecLog == Init /\ [][NextLog]_vars

\* Two transfers over three seeded wallets, A -> B and C -> A, on a database
\* that Init has seeded: the pair whose outcome depends on which ran first.
SerialAddr == {1, 2, 3}

InitSerial ==
    /\ started = TRUE
    /\ balance = [a \in SerialAddr |-> StartBalance]
    /\ txlog = <<>>
    /\ seq = 0
    /\ pc = [p \in Procs |-> "idle"]
    /\ req = [p \in Procs |-> NoReq]
    /\ senderBalance = [p \in Procs |-> 0]
    /\ pending = [p \in Procs |-> NoRows]
    /\ txrow = [p \in Procs |-> NoRow]
    /\ status = [p \in Procs |-> ""]
    /\ logErr = [p \in Procs |-> ""]
    /\ result = [p \in Procs |-> NoResult]
    /\ wallet = NoWallet
    /\ transactions = NoRead
    /\ wallets = NoRead
    /\ now = 0
    /\ cancelled = [p \in Procs |-> FALSE]
    /\ ends = [p \in Procs |-> <<>>]

SendSerial ==
    \E amount \in 1..MaxAmount :
        \/ Send(1, 1, 2, amount)
        \/ Send(2, 3, 1, amount)

NextSerial ==
    \/ SendSerial
    \/ \E p \in Procs : ReadSender(p)
    \/ \E p \in Procs : ReadRecipient(p)
    \/ \E p \in Procs : Debit(p)
    \/ \E p \in Procs : Credit(p)
    \/ \E p \in Procs : LogTransactionInTx(p)
    \/ \E p \in Procs : Commit(p)
    \/ \E p \in Procs : LogTransaction(p)

SpecSerial == InitSerial /\ [][NextSerial]_vars

\* The transfers of SpecRead with requests whose ctx ends under way.
NextCancel ==
    \/ StorageInit
    \/ SendWhole
    \/ \E p \in Procs : ReadSender(p)
    \/ \E p \in Procs : ReadRecipient(p)
    \/ \E p \in Procs : Debit(p)
    \/ \E p \in Procs : Credit(p)
    \/ \E p \in Procs : LogTransactionInTx(p)
    \/ \E p \in Procs : Commit(p)
    \/ \E p \in Procs : LogTransaction(p)
    \/ \E p \in Procs : Cancel(p)

SpecCancel == Init /\ [][NextCancel]_vars

\* Storage.SendMoney called without the handler in front of it, with the
\* arguments the handler would have turned away.
SendMoneyUnchecked ==
    \E p \in Procs, from \in SeedAddr, to \in SeedAddr, amount \in (0 - MaxAmount)..MaxAmount :
        /\ amount <= 0 \/ from = to
        /\ SendMoney(p, from, to, amount)

NextDirect ==
    \/ StorageInit
    \/ SendMoneyUnchecked
    \/ \E p \in Procs : ReadSender(p)
    \/ \E p \in Procs : ReadRecipient(p)
    \/ \E p \in Procs : Debit(p)
    \/ \E p \in Procs : Credit(p)
    \/ \E p \in Procs : LogTransactionInTx(p)
    \/ \E p \in Procs : Commit(p)
    \/ \E p \in Procs : LogTransaction(p)

SpecDirect == Init /\ [][NextDirect]_vars

\* The server with the older copy of the handler in front of SendMoney.
NextLegacy ==
    \/ StorageInit
    \/ \E p \in Procs, from \in SeedAddr, to \in SeedAddr, amount \in ReqAmounts :
          SendLegacy(p, from, to, amount)
    \/ \E p \in Procs : ReadSender(p)
    \/ \E p \in Procs : ReadRecipient(p)
    \/ \E p \in Procs : Debit(p)
    \/ \E p \in Procs : Credit(p)
    \/ \E p \in Procs : LogTransactionInTx(p)
    \/ \E p \in Procs : Commit(p)
    \/ \E p \in Procs : LogTransaction(p)

SpecLegacy == Init /\ [][NextLegacy]_vars

\* ===================================================================== claims
\* SendMoney was called by request p and has returned.
Returned(p) == pc[p] = "done" /\ result[p].kind # "rejected"

\* A committed transactions row of request p's transfer with status st.
HasRow(p, st) ==
    \E i \in 1..Len(txlog) :
        /\ txlog[i].from = req[p].from
        /\ txlog[i].to = req[p].to
        /\ txlog[i].status = st

\* The status the log owes a returned result.
StatusOf(res) ==
    IF res = Nil THEN StatusSuccess
    ELSE IF res.code = CodeSenderNotFound THEN StatusFailedSenderNotFound
    ELSE IF res.code = CodeInsufficientFunds THEN StatusFailedInsufficientFunds
    ELSE IF res.code = CodeRecipientNotFound THEN StatusFailedRecipientNotFound
    ELSE StatusUnknownError

\* C1: conservation of funds: in every committed state the wallet balances add
\* up to what Init seeded, whatever transfers ran.  (Fails: an amount with a
\* ninth decimal is rounded on each UPDATE separately.)
C1_Conservation == Sum(balance) = Cardinality(DOMAIN balance) * StartBalance

\* C2: every committed wallet balance is >= 0, also when two transfers debit
\* the same sender concurrently.  (Fails: the balance check reads without a
\* row lock.)
C2_BalanceNonNegative == \A w \in DOMAIN balance : balance[w] >= 0

\* C3: a call that returns an error has changed no committed balance: every
\* step a call takes, other than the one in which it returns nil, leaves the
\* wallets table as it was.
C3_FailedCallChangesNothing ==
    [][\A p \in Procs :
         (pc'[p] # pc[p] /\ ~(pc'[p] = "done" /\ result'[p] = Nil)) => balance' = balance]_vars

\* C3 witness: a call returned the error of a failed Commit, after both
\* UPDATEs ran, with no other call started, and every wallet holds its seed.
C3_Witness ==
    \E p \in Procs :
        /\ pc[p] = "done" /\ result[p].kind = "error" /\ result[p].at = "Commit"
        /\ \A q \in Procs \ {p} : pc[q] = "idle"
        /\ \A w \in DOMAIN balance : balance[w] = StartBalance

\* C4: when SendMoney(from, to, amount) returns nil, the committed balance of
\* from went down by exactly amount, that of to up by exactly amount, and no
\* other wallet changed.  (Fails for an amount with a ninth decimal.)
C4_SuccessMovesExactlyAmount ==
    [][\A p \in Procs :
         (pc[p] = "commit" /\ pc'[p] = "done" /\ result'[p] = Nil) =>
            /\ balance'[req[p].from] * SubUnits = balance[req[p].from] * SubUnits - req[p].amount
            /\ balance'[req[p].to] * SubUnits = balance[req[p].to] * SubUnits + req[p].amount
            /\ \A w \in DOMAIN balance \ {req[p].from, req[p].to} : balance'[w] = balance[w]]_vars

\* C5: every SendMoney call adds exactly one row to the log, with the status
\* that matches what it returns.  Stated for the calls whose log INSERT, if
\* any, was not lost to a storage failure: in the step in which the call
\* returns, the log grows by one row of that call with the matching status.
C5_OneRowPerCall ==
    [][\A p \in Procs :
         (pc[p] \notin {"idle", "done"} /\ pc'[p] = "done" /\ logErr'[p] # "storage") =>
            /\ Len(txlog') = Len(txlog) + 1
            /\ SubSeq(txlog', 1, Len(txlog)) = txlog
            /\ txlog'[Len(txlog')].from = req[p].from
            /\ txlog'[Len(txlog')].to = req[p].to
            /\ txlog'[Len(txlog')].status = StatusOf(result'[p])]_vars

\* C6: a call that ends with SenderNotFound or RecipientNotFound leaves its
\* failed_sender_not_found / failed_recipient_not_found row in the log (the
\* log takes rows whose address has no wallet), unless the INSERT was lost to
\* a storage failure.
C6_NotFoundRowAccepted ==
    \A p \in Procs :
        (/\ Returned(p)
         /\ result[p].code \in {CodeSenderNotFound, CodeRecipientNotFound}
         /\ logErr[p] # "storage") => HasRow(p, status[p])

\* The result the validation order of SendMoney owes request p, from what the
\* call read: sender row, then senderBalance < amount, then recipient row.
Expected(p) ==
    IF req[p].from \notin DOMAIN balance THEN CodeSenderNotFound
    ELSE IF senderBalance[p] * SubUnits < req[p].amount THEN CodeInsufficientFunds
    ELSE IF req[p].to \notin DOMAIN balance THEN CodeRecipientNotFound
    ELSE ""

\* C7: SendMoney reports the first validation that fails, in the order sender
\* exists, sender balance >= amount, recipient exists: a call that met no
\* storage error returns exactly the code of the first failing check, nil
\* when none fails.
C7_ValidationOrder ==
    \A p \in Procs :
        (/\ Returned(p)
         /\ result[p].kind \in {"nil", "TransactionError"}
         /\ result[p].code # CodeInternalError) => result[p].code = Expected(p)

\* C7 witness: one call with both addresses missing returned SenderNotFound,
\* and one with too small a balance and a missing recipient returned
\* InsufficientFunds.
C7_Witness ==
    /\ \E p \in Procs :
         /\ Returned(p) /\ req[p].from = Ghost /\ req[p].to \notin DOMAIN balance
         /\ result[p].code = CodeSenderNotFound
    /\ \E p \in Procs :
         /\ Returned(p) /\ req[p].from \in DOMAIN balance /\ req[p].to = Ghost
         /\ senderBalance[p] * SubUnits < req[p].amount
         /\ result[p].code = CodeInsufficientFunds

\* C8: a call that ends on a failed Commit or on a storage error of a
\* statement inside the transaction returns InternalError and leaves an
\* unknown_error row in the log.  Stated for the calls whose log INSERT, if
\* any, was not refused (by a storage failure or by a constraint of the table).
C8_StorageErrorLoggedInternal ==
    \A p \in Procs :
        (/\ Returned(p)
         /\ result[p].at \in {"readSender", "readRecipient", "debit", "credit",
                              "logTransactionInTx", "Commit"}
         /\ result[p].code \notin {CodeSenderNotFound, CodeRecipientNotFound}) =>
            /\ result[p].kind = "TransactionError"
            /\ result[p].code = CodeInternalError
            /\ logErr[p] \notin {"storage", "constraint"} => HasRow(p, StatusUnknownError)

\* C9: every non-nil error SendMoney returns is a TransactionError with one of
\* the four codes; a storage failure at any step comes back as InternalError.
C9_ErrorsAreTyped ==
    \A p \in Procs :
        (Returned(p) /\ result[p] # Nil) =>
            /\ result[p].kind = "TransactionError"
            /\ result[p].code \in {CodeSenderNotFound, CodeRecipientNotFound,
                                   CodeInsufficientFunds, CodeInternalError}

\* The wallets table b after the transfer r is applied whole.
Transferred(b, r) ==
    [w \in DOMAIN b |->
        IF w = r.from THEN RoundQ(b[w] * SubUnits - r.amount)
        ELSE IF w = r.to THEN RoundQ(b[w] * SubUnits + r.amount)
        ELSE b[w]]

\* C10: no reader sees an intermediate state of a running transfer.  The
\* committed tables, which are all that GetWalletBalance and the SELECTs of
\* another SendMoney read, change only by a whole transfer at once: debit,
\* credit and the success row in one step; while a transfer is open the
\* committed rows it wrote still hold the values from before its writes.
C10_NoIntermediateState ==
    /\ [](\A p \in Procs : \A w \in DOMAIN pending[p] :
            /\ w \in {req[p].from, req[p].to}
            /\ pending[p][w] = Transferred(balance, req[p])[w])
    /\ [][/\ (started /\ (balance' # balance
                          \/ (txlog' # txlog /\ txlog'[Len(txlog')].status = StatusSuccess))) =>
               \E p \in Procs :
                   /\ pc[p] = "commit"
                   /\ balance' = Transferred(balance, req[p])
                   /\ txlog' = Append(txlog, [Row(txrow[p].id, req[p], StatusSuccess)
                                               EXCEPT !.timestamp = txrow[p].timestamp])
          /\ (wallet' # wallet /\ wallet'.err = "nil") =>
               wallet'.balance = balance[wallet'.address]
          /\ \A q \in Procs :
               senderBalance'[q] # senderBalance[q] => senderBalance'[q] = balance[req[q].from]
         ]_vars

\* C10 witness: GetWalletBalance answered for the sender of a transfer that
\* has debited it and not committed; the answer is the balance before the debit.
C10_Witness ==
    \E p \in Procs :
        /\ pc[p] \in {"credit", "logTransactionInTx", "commit"}
        /\ wallet.err = "nil"
        /\ wallet.address = req[p].from
        /\ pending[p][req[p].from] = wallet.balance - 1
        /\ balance[req[p].from] = wallet.balance

\* The wallets table as Init seeded it.
Seeded == [w \in DOMAIN balance |-> StartBalance]

\* Both calls of the pair returned nil.
BothCommitted(p, q) ==
    /\ p # q
    /\ pc[p] = "done" /\ result[p] = Nil
    /\ pc[q] = "done" /\ result[q] = Nil

\* The amount of request p is a whole number of quanta.
WholeQuanta(p) == req[p].amount % SubUnits = 0

\* What both transfers add to wallet w, in sub-units.
NetChange(p, q, w) ==
    (IF w = req[p].to THEN req[p].amount ELSE 0) - (IF w = req[p].from THEN req[p].amount ELSE 0)
    + (IF w = req[q].to THEN req[q].amount ELSE 0) - (IF w = req[q].from THEN req[q].amount ELSE 0)

\* C11: no lost update: when two SendMoney calls, however interleaved, both
\* commit, every wallet holds what the two transfers applied one after the
\* other leave in it, each UPDATE adjusting the balance the other call left;
\* for amounts the column stores exactly that is the seeded balance plus and
\* minus both amounts.
C11_NoLostUpdate ==
    \A p \in Procs : \A q \in Procs :
        BothCommitted(p, q) =>
            /\ \/ balance = Transferred(Transferred(Seeded, req[p]), req[q])
               \/ balance = Transferred(Transferred(Seeded, req[q]), req[p])
            /\ (WholeQuanta(p) /\ WholeQuanta(q)) =>
                  \A w \in DOMAIN balance :
                      balance[w] * SubUnits = StartBalance * SubUnits + NetChange(p, q, w)

\* C11 witness: two calls debited the same sender, each after reading the
\* seeded balance (so neither ran after the other), both committed, and the
\* sender is down by both amounts.
C11_Witness ==
    \E p \in Procs : \E q \in Procs :
        /\ BothCommitted(p, q)
        /\ req[p].from = req[q].from
        /\ senderBalance[p] = StartBalance /\ senderBalance[q] = StartBalance
        /\ balance[req[p].from] * SubUnits = StartBalance * SubUnits - req[p].amount - req[q].amount

\* SendMoney(r) run alone on the wallets table b: the code it returns ("" for
\* nil) and the table it leaves.
Outcome(b, r) ==
    IF r.from \notin DOMAIN b THEN CodeSenderNotFound
    ELSE IF b[r.from] * SubUnits < r.amount THEN CodeInsufficientFunds
    ELSE IF r.to \notin DOMAIN b THEN CodeRecipientNotFound
    ELSE ""

After(b, r) == IF Outcome(b, r) = "" THEN Transferred(b, r) ELSE b

\* The calls p and q ended as if p had run alone first and q alone after it.
AsIfInOrder(p, q) ==
    /\ result[p].code = Outcome(Seeded, req[p])
    /\ result[q].code = Outcome(After(Seeded, req[p]), req[q])
    /\ balance = After(After(Seeded, req[p]), req[q])

\* Request p returned and met no storage error.
ReturnedClean(p) ==
    /\ Returned(p)
    /\ result[p].kind \in {"nil", "TransactionError"}
    /\ result[p].code # CodeInternalError

\* C12: serializability of the pair A -> B, C -> A: however the two calls
\* interleave, once both have returned (no storage error met) the balances
\* and what each call returned are those of running the two calls one after
\* the other in one of the two orders.
C12_Serializable ==
    (ReturnedClean(1) /\ ReturnedClean(2)) => (AsIfInOrder(1, 2) \/ AsIfInOrder(2, 1))

\* C12 witness: A -> B arrived first, asked for more than A was seeded with
\* and returned nil: C -> A committed while it was running, and only the
\* order C -> A, A -> B gives that outcome.
C12_Witness ==
    /\ ReturnedClean(1) /\ ReturnedClean(2)
    /\ req[1].amount > StartBalance * SubUnits
    /\ result[1] = Nil /\ result[2] = Nil
    /\ ~AsIfInOrder(1, 2)

\* The wallets row the UPDATE that call p stands at is about to write.
WaitRow(p) == IF pc[p] = "debit" THEN req[p].from ELSE req[p].to

\* Call p stands at an UPDATE of a row that the open transaction of q has locked.
WaitsFor(p, q) ==
    /\ p # q
    /\ pc[p] \in {"debit", "credit"}
    /\ WaitRow(p) \in DOMAIN pending[q]

\* C13: concurrent SendMoney calls never deadlock: no two calls ever wait for
\* each other's row lock, so none is blocked forever or aborted to break a
\* lock cycle.  (Fails: A -> B locks A then B while B -> A locks B then A; the
\* server breaks the cycle by aborting one UPDATE, and that call returns
\* InternalError.)
C13_NoLockCycle ==
    \A p \in Procs : \A q \in Procs : ~(WaitsFor(p, q) /\ WaitsFor(q, p))

\* C14: a call whose ctx is done after BeginTx and before Commit has completed
\* commits no balance change and returns InternalError, never nil.  (Fails in
\* the kind of error: with the ctx done at the Commit, SendMoney returns the
\* error of tx.Commit() as it is.)
C14_CancelledReturnsInternal ==
    \A p \in Procs :
        (Returned(p) /\ cancelled[p]) =>
            /\ result[p].kind = "TransactionError"
            /\ result[p].code = CodeInternalError
            /\ pending[p] = NoRows

\* C15: SendMoney called with amount <= 0 or from = to fails cleanly: it
\* returns an error and every balance stays what it was, so a negative amount
\* moves nothing from the recipient to the sender and no balance goes below
\* zero.  Stated where every call is such a call: no call returns nil and the
\* wallets hold what Init seeded.  (Fails: SendMoney checks neither; a
\* negative amount passes senderBalance < amount and is "debited" and
\* "credited" with its sign.)
C15_UncheckedCallFailsCleanly ==
    /\ \A p \in Procs : pc[p] = "done" => result[p] # Nil
    /\ balance = Seeded

\* Row a comes before row b in the order the claim fixes: later timestamp
\* first, and of two rows with one timestamp the larger id first.
Before(a, b) ==
    \/ a.timestamp > b.timestamp
    \/ a.timestamp = b.timestamp /\ a.id > b.id

\* The committed rows in that order: the one arrangement of them that obeys it.
MostRecentFirst ==
    LET L == Len(txlog)
        f == CHOOSE g \in [1..L -> 1..L] :
                 \A i \in 1..L : \A j \in 1..L : i < j => Before(txlog[g[i]], txlog[g[j]])
    IN [i \in 1..L |-> txlog[f[i]]]

\* C16: GetLastTransactions(n) returns the min(n, log size) most recent rows,
\* by timestamp descending and, for equal timestamps, by id descending: the
\* answer is a function of the log.  (Fails: the query orders by timestamp
\* only, rows of one timestamp come back in whatever order the server picks.)
C16_LastTransactionsOrdered ==
    [][(transactions' # transactions /\ transactions'.err = "nil") =>
          transactions'.rows = SubSeq(MostRecentFirst, 1, Min(transactions'.n, Len(txlog)))]_vars

\* The committed log only grows at its end: no committed row is changed or removed.
AppendOnly ==
    /\ Len(txlog') >= Len(txlog)
    /\ SubSeq(txlog', 1, Len(txlog)) = txlog

\* The ids of the rows that exist: committed, or inserted by an open transaction.
IdsInUse ==
    {txlog[i].id : i \in 1..Len(txlog)} \cup {txrow[p].id : p \in {q \in Procs : txrow[q] # NoRow}}

\* C17 as stated: the log is append-only, and each newly committed row has an
\* id greater than the id of every row already in the log.  (The second part
\* fails: the id is taken at the INSERT, the row joins the log at the commit.)
C17_CommittedIdsIncrease ==
    [][/\ AppendOnly
       /\ Len(txlog') > Len(txlog) =>
            \A i \in 1..Len(txlog) : txlog'[Len(txlog')].id > txlog[i].id]_vars

\* C17 amended: the log is append-only, and each newly inserted row is given
\* an id greater than every id given out before; ids are never shared.
C17_InsertedIdsIncrease ==
    /\ [](/\ \A id \in IdsInUse : id <= seq
          /\ \A i \in 1..Len(txlog) : \A j \in 1..Len(txlog) :
                i # j => txlog[i].id # txlog[j].id
          /\ \A p \in Procs : \A i \in 1..Len(txlog) :
                txrow[p] # NoRow => txrow[p].id # txlog[i].id)
    /\ [][/\ AppendOnly
          /\ \A id \in IdsInUse' \ IdsInUse : id > seq /\ id = seq']_vars

\* C17 witness: a row inserted inside a transaction was committed after a
\* row that was inserted later: the log holds the larger id first.
C17_Witness ==
    /\ Len(txlog) = 2
    /\ txlog[1].id > txlog[2].id
    /\ txlog[2].status = StatusSuccess

\* Request p returns nil in this step: its transaction commits.
Commits(p) == pc[p] = "commit" /\ pc'[p] = "done" /\ result'[p] = Nil

\* C18: wallet balances change only through a committed successful
\* SendMoney: in every step of any operation (Init, the readers, the failure
\* log, a call that rolls back) each wallet row stays as it is unless the
\* step is the commit of a call that returns nil and the wallet is its sender
\* or recipient; no step removes a wallet, and none adds one once the server
\* serves.
C18_BalancesChangeOnlyByCommit ==
    [][/\ \A w \in DOMAIN balance :
            /\ w \in DOMAIN balance'
            /\ balance'[w] # balance[w] =>
                  \E p \in Procs : Commits(p) /\ w \in {req[p].from, req[p].to}
       /\ started => DOMAIN balance' = DOMAIN balance]_vars

\* C18 witness: one call committed, one call failed and its failure row was
\* logged, GetWallets then listed every wallet, and the balances are those of
\* the committed transfer alone.
C18_Witness ==
    \E p \in Procs : \E q \in Procs :
        /\ Returned(p) /\ result[p].kind = "TransactionError" /\ logErr[p] = "nil"
        /\ Returned(q) /\ result[q] = Nil
        /\ wallets.err = "nil" /\ Len(wallets.rows) = NumSeed
        /\ balance = Transferred(Seeded, req[q])
        /\ balance # Seeded

\* C19: GetWalletBalance(address) returns ErrWalletNotFound exactly when no
\* wallet row has that address, and otherwise that wallet with its committed
\* balance; stated of every answer of a query that did not itself fail.
C19_GetWalletBalance ==
    [][(wallet' # wallet /\ wallet'.err \notin {"none", "error"}) =>
          /\ wallet'.err \in {"nil", "ErrWalletNotFound"}
          /\ wallet'.err = "ErrWalletNotFound" <=> wallet'.arg \notin DOMAIN balance
          /\ wallet'.err = "nil" =>
                /\ wallet'.address = wallet'.arg
                /\ wallet'.balance = balance[wallet'.arg]]_vars

\* C19 witness: after a transfer has committed, GetWalletBalance was asked
\* for an address that has no row and answered ErrWalletNotFound.
C19_Witness ==
    /\ wallet.err = "ErrWalletNotFound"
    /\ wallet.arg \notin DOMAIN balance
    /\ DOMAIN balance # {}
    /\ balance # Seeded

\* C20: the handler Send calls SendMoney only with amount > 0 and from # to;
\* a request with amount <= 0, amount = 0 included, or with from = to is
\* turned away before SendMoney is called.  (Holds of the handler at
\* part_004 lines 60-77; fails of the older copy at lines 182-202, which
\* tests amount < 0 and hands amount = 0 to SendMoney.)
C20_SendMoneyOnlyWhenValid ==
    \A p \in Procs :
        (pc[p] # "idle" /\ result[p].kind # "rejected") =>
            /\ req[p].amount > 0
            /\ req[p].from # req[p].to

\* C21: a failure of the best-effort log write is swallowed: in the step in
\* which logTransaction runs and the call returns, whatever the INSERT did
\* (stored the row, was refused by a constraint, failed in the storage), the
\* call returns the error it had before the write and no committed balance
\* changes.
C21_LogFailureSwallowed ==
    [][\A p \in Procs :
         (pc[p] = "logTransaction" /\ pc'[p] = "done") =>
            /\ logErr'[p] \in {"nil", "constraint", "storage"}
            /\ result'[p] = result[p]
            /\ result'[p] # Nil
            /\ balance' = balance]_vars

\* C21 witness: two calls with the same arguments failed the same check; the
\* log write of one succeeded and that of the other failed; both returned
\* the same error and the wallets hold what Init seeded.
C21_Witness ==
    \E p \in Procs : \E q \in Procs :
        /\ Returned(p) /\ Returned(q)
        /\ req[p] = req[q]
        /\ logErr[p] = "nil" /\ logErr[q] = "storage"
        /\ result[p] = result[q]
        /\ result[p].code = CodeInsufficientFunds
        /\ balance = Seeded

\* C22: Init seeds wallets if and only if the wallets table is empty: run on
\* an empty table it leaves exactly the NumSeed seed wallets, each with the
\* starting balance; run on a table with a wallet it creates none and changes
\* no balance.  (Fails: the seed wallets are inserted one autocommit
\* statement at a time; an Init that fails under way leaves some of them, and
\* the next Init finds the table not empty and adds none.)
C22_InitSeedsIffEmpty ==
    [][~started =>
          IF DOMAIN balance = {}
          THEN /\ DOMAIN balance' = SeedAddr
               /\ \A a \in SeedAddr : balance'[a] = StartBalance
          ELSE balance' = balance]_vars

\* What the success rows of the committed log add to wallet w, in quanta:
\* the amounts of the rows naming it as recipient minus those naming it as
\* sender.
LoggedNet(w) ==
    LET RECURSIVE N(_)
        N(i) == IF i = 0 THEN 0
                ELSE N(i - 1)
                     + (IF txlog[i].status = StatusSuccess /\ txlog[i].to = w
                        THEN txlog[i].amount ELSE 0)
                     - (IF txlog[i].status = StatusSuccess /\ txlog[i].from = w
                        THEN txlog[i].amount ELSE 0)
    IN N(Len(txlog))

\* C23: ledger and log agree in every committed state: the balance of each
\* wallet is its seeded balance plus the amounts of the success rows that
\* name it as recipient minus the amounts of those that name it as sender.
\* (Fails for an amount with a ninth decimal: the row stores the amount
\* rounded, each UPDATE stores the balance rounded, and the three roundings
\* differ.)
C23_LedgerMatchesLog ==
    \A w \in DOMAIN balance : balance[w] = StartBalance + LoggedNet(w)

\* Call p got its transaction from BeginTx.
Began(p) ==
    /\ pc[p] # "idle"
    /\ result[p].kind # "rejected"
    /\ result[p].at # "BeginTx"

\* C24 as stated: a call that began a transaction has ended it exactly once
\* when it returns: by exactly one Rollback if it returns an error, by
\* exactly one Commit if it returns nil; no call returns with its
\* transaction open, and the failure log is written only after the Rollback.
\* (Fails in one respect: the error of a failed Commit is returned with no
\* Rollback before it.)
C24_EndsByRollbackOrCommit ==
    \A p \in Procs :
        Began(p) =>
            /\ pc[p] = "logTransaction" => ends[p] = <<"Rollback">>
            /\ pc[p] = "done" =>
                  /\ pending[p] = NoRows /\ txrow[p] = NoRow
                  /\ ends[p] = IF result[p] = Nil THEN <<"Commit">> ELSE <<"Rollback">>

\* C24 amended: a call that began a transaction makes exactly one call that
\* ends it before it returns: one Rollback and no Commit on every error path
\* that returns before line 272, one Commit and no Rollback on the path that
\* reaches line 272, whose result, nil or the error of the Commit, it
\* returns; until then none is made; no call returns with its transaction
\* open, and the failure log is written only after the Rollback.
C24_EndsExactlyOnce ==
    \A p \in Procs :
        /\ ~Began(p) => ends[p] = <<>>
        /\ Began(p) =>
              /\ pc[p] \in {"readSender", "readRecipient", "debit", "credit",
                             "logTransactionInTx", "commit"} => ends[p] = <<>>
              /\ pc[p] = "logTransaction" =>
                    /\ ends[p] = <<"Rollback">>
                    /\ pending[p] = NoRows /\ txrow[p] = NoRow
              /\ pc[p] = "done" =>
                    /\ pending[p] = NoRows /\ txrow[p] = NoRow
                    /\ ends[p] = IF result[p] = Nil \/ result[p].at = "Commit"
                                 THEN <<"Commit">> ELSE <<"Rollback">>

\* C24 witness: one call returned the error of a failed Commit, having made
\* that Commit and no Rollback; another failed a check, rolled back, wrote
\* its failure row and returned.
C24_Witness ==
    \E p \in Procs : \E q \in Procs :
        /\ Returned(p) /\ result[p].at = "Commit" /\ ends[p] = <<"Commit">>
        /\ Returned(q) /\ result[q].kind = "TransactionError" /\ logErr[q] = "nil"
        /\ ends[q] = <<"Rollback">>
====
